---- MODULE Spec2Model ----
(***************************************************************************)
(* Model of assignment4.py: load_data, range_partition,                    *)
(* round_robin_partition and delete_partitions, run over one database      *)
(* connection.  The connection is modelled by the committed tables, the    *)
(* tables as the open transaction sees them, and the transaction's state.  *)
(***************************************************************************)
EXTENDS Integers, Sequences, FiniteSets, TLC

VARIABLES
    committed,   \* the tables as committed in the database
    work,        \* the tables as seen inside the connection's transaction
    txn,         \* "idle", "open" or "aborted" (a statement failed)
    pc,          \* position of the running call, "idle" between calls
    op,          \* name of the running (or last) call
    issued,      \* statements and commit/rollback issued by that call
    raised,      \* what that call raised: NoError, or an error record
    calls,       \* number of calls of load_data started with these arguments
    table_name, file_path, header_path,   \* arguments of load_data
    columns,     \* load_data: the header's column names, in key order
    pos,         \* load_data: number of CSV rows read so far
    batch,       \* load_data: the rows waiting for the next insert
    parts,       \* partition calls: number of partitions
    min_val, max_val, range_size,         \* range_partition locals
    i,           \* loop index of the partition calls
    rows,        \* round_robin_partition: the fetched rows
    requested,   \* range_partition: the FROM/TO bounds sent so far
    inserts      \* single-row inserts into the round-robin parent since its commit

dbVars   == <<committed, work, txn>>
callVars == <<pc, op, issued, raised>>
loadVars == <<calls, table_name, file_path, header_path, columns, pos, batch>>
partVars == <<parts, min_val, max_val, range_size, i, rows, requested, inserts>>
vars     == <<dbVars, callVars, loadVars, partVars>>

----------------------------------------------------------------------------
(* Bounds of the model *)

MaxBatches == 2      \* CSV files hold up to MaxBatches full batches (+1 row)
MaxCalls   == 2      \* load_data is called up to MaxCalls times in a row
MaxParts   == 3      \* partition counts 1..MaxParts
MaxRows    == 3      \* rows of the source table of a partition call
MaxKey     == 4      \* values 1..MaxKey of the partition column
MaxInserts == 3      \* single-row inserts into the round-robin parent

(* Program constant *)
BatchSize == 1000

----------------------------------------------------------------------------
(* The database: tables by name *)

Child(base, k) == base \o ToString(k)

DataTable == "data"
Base      == "t"
Names     == {DataTable, Base} \cup {Child(Base, k) : k \in 0..MaxParts}

NoTable == [exists |-> FALSE, kind |-> "none", parent |-> "", lo |-> 0, hi |-> 0,
            trig |-> 0, rows |-> <<>>]

PlainTable(rs) == [exists |-> TRUE, kind |-> "plain", parent |-> "", lo |-> 0,
                   hi |-> 0, trig |-> 0, rows |-> rs]

NoError == [kind |-> "none", wrapped |-> FALSE, msg |-> ""]

\* The error of a rejected statement, and of a failure in the client itself.
EngineError == [kind |-> "engine", wrapped |-> FALSE, msg |-> ""]
ClientError == [kind |-> "client", wrapped |-> FALSE, msg |-> ""]

\* raise Exception(f"<msg>: {str(e)}")
Wrapped(m) == [kind |-> "Exception", wrapped |-> TRUE, msg |-> m]

\* Tables that inherit from `name` (CREATE TABLE ... INHERITS (name)).
InheritingFrom(db, name) ==
    {c \in Names : db[c].exists /\ db[c].kind = "inherits" /\ db[c].parent = name}

\* Partitions of `name` (CREATE TABLE ... PARTITION OF name).
PartitionsOf(db, name) ==
    {c \in Names : db[c].exists /\ db[c].kind = "partition" /\ db[c].parent = name}

\* DROP TABLE IF EXISTS name: the engine refuses (no CASCADE) while a table
\* inherits from it, and refuses every statement of an aborted transaction.
DropAccepted(db, t, name) ==
    /\ t # "aborted"
    /\ (db[name].exists => InheritingFrom(db, name) = {})

\* Its effect: nothing when the table is absent; a partitioned table goes
\* with its partitions.
DropTable(db, name) ==
    IF ~db[name].exists THEN db
    ELSE [c \in Names |->
            IF c = name \/ c \in PartitionsOf(db, name) THEN NoTable ELSE db[c]]

\* CREATE TABLE name (...): refused when the name is taken.
CreateAccepted(db, t, name) == t # "aborted" /\ ~db[name].exists

\* Its effect: an empty plain table.
CreateTable(db, name) == [db EXCEPT ![name] = PlainTable(<<>>)]

\* INSERT INTO name ... VALUES ...: the rows are added to the table
\* (execute_values sends them in pages; a page that fails fails the call).
InsertRows(db, name, rs) == [db EXCEPT ![name].rows = @ \o rs]

\* conn.commit(): an aborted transaction is rolled back by the engine instead.
CommitDb(t) == IF t = "aborted" THEN committed ELSE work

----------------------------------------------------------------------------
(* Header and CSV files *)

\* A stored value: null, or a string.
Null     == <<>>
Value(s) == <<s>>

\* header_path: the column names in the key order of the JSON header.
Headers == {<<"id", "val">>, <<"val", "id">>}

\* file_path: a CSV file of n data rows; pat says which fields are empty.
Patterns  == 0..3
RowCounts == {n \in {b * BatchSize + d : b \in 0..MaxBatches, d \in {-1, 0, 1}} : n >= 0}
SmallCounts == {n \in RowCounts \cup {2, 3} : n < BatchSize - 1}
SmallFiles == [n : SmallCounts, pat : Patterns]
LargeFiles == [n : RowCounts \ SmallCounts, pat : {3}]
Files      == SmallFiles \cup LargeFiles

\* Row k (1-based) of the file, as csv.DictReader yields it.
CsvRow(f, k) ==
    [id  |-> IF f.pat >= 2 /\ k % 3 = 0 THEN "" ELSE ToString(k),
     val |-> IF f.pat % 2 = 1 /\ k % 2 = 0 THEN "" ELSE "a"]

ValuesRaw(row, cols) == [j \in 1..Len(cols) |-> Value(row[cols[j]])]

\* line 44: values = [row[col] if row[col] != '' else None for col in columns]
Values(row, cols) ==
    [j \in 1..Len(cols) |-> IF row[cols[j]] # "" THEN Value(row[cols[j]]) ELSE Null]

\* line 47: if len(batch) >= 1000
BatchFull(b) == Len(b) >= BatchSize

HasRestNever(b) == FALSE

\* line 55: if batch
HasRest(b) == b # <<>>

\* Rows a table may hold before load_data is called on it.
OldRows == <<<<Value("old"), Null>>>>

----------------------------------------------------------------------------
(* Shared steps *)

RaiseWithoutRollback(msg) ==
    /\ raised' = Wrapped(msg)
    /\ pc' = "idle"
    /\ UNCHANGED <<committed, work, txn, issued>>

\* except Exception as e: conn.rollback(); raise Exception(f"{msg}: {str(e)}")
RollbackAndRaise(msg) ==
    /\ work' = committed
    /\ txn' = "idle"
    /\ UNCHANGED committed
    /\ issued' = Append(issued, "rollback")
    /\ raised' = Wrapped(msg)
    /\ pc' = "idle"

\* The locals of load_data are gone once it returns or raises.
LoadLocalsGone == columns' = <<>> /\ pos' = 0 /\ batch' = <<>>

\* A statement the engine accepted inside the transaction.
Executed(db, stmt) ==
    /\ work' = db
    /\ txn' = "open"
    /\ UNCHANGED committed
    /\ issued' = Append(issued, stmt)

PropagateAfterRollback(err) ==
    /\ raised' = err
    /\ work' = committed
    /\ txn' = "idle"
    /\ issued' = Append(issued, "rollback")
    /\ pc' = "idle"
    /\ UNCHANGED committed

\* A raise that nothing catches: no rollback, the transaction stays as the
\* failure left it (aborted when the engine rejected a statement).
Propagate(err) ==
    /\ raised' = err
    /\ txn' = IF err = EngineError THEN "aborted" ELSE txn
    /\ pc' = "idle"
    /\ UNCHANGED <<committed, work, issued>>

\* conn.commit()
Commit ==
    /\ committed' = CommitDb(txn)
    /\ work' = CommitDb(txn)
    /\ txn' = "idle"
    /\ issued' = Append(issued, "commit")
    /\ pc' = "idle"

----------------------------------------------------------------------------
(* load_data, lines 19-65 *)

LoadFail == RollbackAndRaise("Data loading error") /\ LoadLocalsGone

\* The call itself; line 29.
load_data ==
    /\ pc = "idle"
    /\ calls < MaxCalls
    /\ calls' = calls + 1
    /\ op' = "load_data"
    /\ pc' = "load_drop"
    /\ issued' = <<>>
    /\ raised' = NoError
    /\ columns' = <<>>
    /\ pos' = 0
    /\ batch' = <<>>
    /\ UNCHANGED <<dbVars, table_name, file_path, header_path, partVars>>

\* No DROP, and CREATE TABLE IF NOT EXISTS: the rows are added to the table.
LoadAppend ==
    /\ pc = "load_drop"
    /\ Executed(IF work[table_name].exists THEN work ELSE CreateTable(work, table_name),
                "create")
    /\ columns' = header_path
    /\ pc' = "load_open"
    /\ UNCHANGED <<raised, pos, batch>>
    /\ UNCHANGED <<op, calls, table_name, file_path, header_path, partVars>>

\* line 31: DROP TABLE IF EXISTS
LoadDrop ==
    /\ pc = "load_drop"
    /\ \E ok \in BOOLEAN :
        IF ok /\ DropAccepted(work, txn, table_name)
        THEN /\ Executed(DropTable(work, table_name), "drop")
             /\ pc' = "load_header"
             /\ UNCHANGED raised
             /\ UNCHANGED <<columns, pos, batch>>
        ELSE LoadFail
    /\ UNCHANGED <<op, calls, table_name, file_path, header_path, partVars>>

\* lines 33-34: read the header file
LoadHeader ==
    /\ pc = "load_header"
    /\ \E ok \in BOOLEAN :
        IF ok
        THEN /\ columns' = header_path
             /\ pc' = "load_create"
             /\ UNCHANGED <<dbVars, issued, raised, pos, batch>>
        ELSE LoadFail
    /\ UNCHANGED <<op, calls, table_name, file_path, header_path, partVars>>

\* lines 36-37: CREATE TABLE
LoadCreate ==
    /\ pc = "load_create"
    /\ \E ok \in BOOLEAN :
        IF ok /\ CreateAccepted(work, txn, table_name)
        THEN /\ Executed(CreateTable(work, table_name), "create")
             /\ pc' = "load_open"
             /\ UNCHANGED <<raised, columns, pos, batch>>
        ELSE LoadFail
    /\ UNCHANGED <<op, calls, table_name, file_path, header_path, partVars>>

\* lines 39-41: open the CSV file, read its header line, batch = []
LoadOpen ==
    /\ pc = "load_open"
    /\ \E ok \in BOOLEAN :
        IF ok
        THEN /\ batch' = <<>>
             /\ pc' = "load_row"
             /\ UNCHANGED <<dbVars, issued, raised, columns, pos>>
        ELSE LoadFail
    /\ UNCHANGED <<op, calls, table_name, file_path, header_path, partVars>>

\* lines 43-53: one iteration of the loop over the CSV rows
LoadRow ==
    /\ pc = "load_row"
    /\ pos < file_path.n
    /\ \E ok \in BOOLEAN :
        IF ok
        THEN LET values == Values(CsvRow(file_path, pos + 1), columns)
                 full   == Append(batch, values)
             IN  /\ pos' = pos + 1
                 /\ IF BatchFull(full)
                    THEN /\ Executed(InsertRows(work, table_name, full), "insert")
                         /\ batch' = <<>>
                    ELSE /\ batch' = full
                         /\ UNCHANGED <<dbVars, issued>>
                 /\ UNCHANGED <<pc, raised, columns>>
        ELSE LoadFail
    /\ UNCHANGED <<op, calls, table_name, file_path, header_path, partVars>>

\* lines 55-60: the final partial batch
LoadRest ==
    /\ pc = "load_row"
    /\ pos = file_path.n
    /\ \E ok \in BOOLEAN :
        IF ~HasRest(batch)
        THEN /\ pc' = "load_commit"
             /\ UNCHANGED <<dbVars, issued, raised, columns, pos, batch>>
        ELSE IF ok
        THEN /\ Executed(InsertRows(work, table_name, batch), "insert")
             /\ pc' = "load_commit"
             /\ UNCHANGED <<raised, columns, pos, batch>>
        ELSE LoadFail
    /\ UNCHANGED <<op, calls, table_name, file_path, header_path, partVars>>

\* line 62: conn.commit()
LoadCommit ==
    /\ pc = "load_commit"
    /\ Commit
    /\ LoadLocalsGone
    /\ UNCHANGED <<op, raised, calls, table_name, file_path, header_path, partVars>>

----------------------------------------------------------------------------
(* The source table of the partition calls *)

\* A row is <<id, key>>: its position in the table and its partition column.
Key(r) == r[2]

\* The key columns of the source tables, in nondecreasing order: no partition
\* decision reads the order of the keys (range_partition uses MIN, MAX and each
\* row's own key, round_robin_partition the row's position only).
SourceTables ==
    {keys \in UNION {[1..n -> 1..MaxKey] : n \in 0..MaxRows} :
        \A k \in 1..(Len(keys) - 1) : keys[k] <= keys[k + 1]}

SourceRows(keys) == [k \in 1..Len(keys) |-> <<k, keys[k]>>]

RECURSIVE MinKey(_), MaxKeyOf(_)
\* SELECT MIN(partition_col) FROM data_table, on a table that has rows
MinKey(rs) ==
    IF Len(rs) = 1 THEN Key(rs[1])
    ELSE LET m == MinKey(Tail(rs)) IN IF Key(rs[1]) < m THEN Key(rs[1]) ELSE m

\* SELECT MAX(partition_col) FROM data_table, on a table that has rows
MaxKeyOf(rs) ==
    IF Len(rs) = 1 THEN Key(rs[1])
    ELSE LET m == MaxKeyOf(Tail(rs)) IN IF Key(rs[1]) > m THEN Key(rs[1]) ELSE m

\* math.ceil(a / b) for a >= 0, b > 0
Ceil(a, b) == (a + b - 1) \div b

PartLocalsGone == i' = 0 /\ rows' = <<>>

----------------------------------------------------------------------------
(* range_partition, lines 67-97 *)

\* lines 91-92
StartRange(k) == min_val + (k * range_size)
EndRange(k)   == IF k < parts - 1 THEN min_val + ((k + 1) * range_size) ELSE max_val + 1

\* CREATE TABLE name PARTITION OF base FOR VALUES FROM (lo) TO (hi): refused
\* when the name is taken, the parent is not partitioned, the range is empty
\* or it overlaps a partition the parent has.
PartitionAccepted(db, t, name, base, lo, hi) ==
    /\ CreateAccepted(db, t, name)
    /\ db[base].exists /\ db[base].kind = "partitioned"
    /\ lo < hi
    /\ \A c \in PartitionsOf(db, base) : ~(lo < db[c].hi /\ db[c].lo < hi)

CreatePartition(db, name, base, lo, hi) ==
    [db EXCEPT ![name] = [exists |-> TRUE, kind |-> "partition", parent |-> base,
                          lo |-> lo, hi |-> hi, trig |-> 0, rows |-> <<>>]]

CreatePartitioned(db, name) ==
    [db EXCEPT ![name] = [PlainTable(<<>>) EXCEPT !.kind = "partitioned"]]

\* The partition of base a key belongs to (none: the insert is refused).
Routed(db, base, key) ==
    {c \in PartitionsOf(db, base) : db[c].lo <= key /\ key < db[c].hi}

\* INSERT INTO base SELECT * FROM source, on a partitioned table
CopyAccepted(db, t, base, source) ==
    /\ t # "aborted"
    /\ db[base].exists /\ db[source].exists
    /\ \A k \in 1..Len(db[source].rows) : Routed(db, base, Key(db[source].rows[k])) # {}

CopyRouted(db, base, source) ==
    [c \in Names |->
        IF c \in PartitionsOf(db, base)
        THEN LET Mine(r) == db[c].lo <= Key(r) /\ Key(r) < db[c].hi
             IN  [db[c] EXCEPT !.rows = @ \o SelectSeq(db[source].rows, Mine)]
        ELSE db[c]]

range_partition ==
    /\ pc = "idle"
    /\ \E n \in 1..MaxParts : parts' = n
    /\ op' = "range_partition"
    /\ pc' = "rp_minmax"
    /\ issued' = <<>>
    /\ raised' = NoError
    /\ min_val' = 0 /\ max_val' = 0 /\ range_size' = 0 /\ i' = 0
    /\ requested' = <<>>
    /\ UNCHANGED <<dbVars, loadVars, rows, inserts>>

\* lines 80-82: SELECT MIN, MAX; the range size.  An empty table gives
\* (None, None), and line 82 then raises TypeError.
RpMinMax ==
    /\ pc = "rp_minmax"
    /\ IF txn = "aborted" \/ ~work[DataTable].exists
       THEN Propagate(EngineError) /\ UNCHANGED <<min_val, max_val, range_size>>
       ELSE IF work[DataTable].rows = <<>>
       THEN /\ raised' = ClientError
            /\ Executed(work, "select")
            /\ pc' = "idle"
            /\ UNCHANGED <<min_val, max_val, range_size>>
       ELSE LET lo == MinKey(work[DataTable].rows)
                hi == MaxKeyOf(work[DataTable].rows)
            IN  /\ min_val' = lo
                /\ max_val' = hi
                /\ range_size' = Ceil((hi - lo) + 1, parts)
                /\ Executed(work, "select")
                /\ pc' = "rp_header"
                /\ UNCHANGED raised
    /\ UNCHANGED <<op, loadVars, parts, i, rows, requested, inserts>>

\* lines 84-85: read the header file
RpHeader ==
    /\ pc = "rp_header"
    /\ \E ok \in BOOLEAN :
        IF ok
        THEN pc' = "rp_parent" /\ UNCHANGED <<dbVars, issued, raised>>
        ELSE Propagate(ClientError)
    /\ UNCHANGED <<op, loadVars, partVars>>

\* lines 87-88: CREATE TABLE ... PARTITION BY RANGE
RpCreateParent ==
    /\ pc = "rp_parent"
    /\ IF CreateAccepted(work, txn, Base)
       THEN /\ Executed(CreatePartitioned(work, Base), "create")
            /\ pc' = "rp_child"
            /\ UNCHANGED raised
       ELSE Propagate(EngineError)
    /\ UNCHANGED <<op, loadVars, partVars>>

\* lines 90-94: one iteration of the loop over the partitions
RpCreateChild ==
    /\ pc = "rp_child"
    /\ i < parts
    /\ LET start_range == StartRange(i)
           end_range   == EndRange(i)
       IN  /\ requested' = Append(requested, <<start_range, end_range>>)
           /\ IF PartitionAccepted(work, txn, Child(Base, i), Base,
                                   start_range, end_range)
              THEN /\ Executed(CreatePartition(work, Child(Base, i), Base,
                                               start_range, end_range), "create")
                   /\ i' = i + 1
                   /\ UNCHANGED <<pc, raised>>
              ELSE Propagate(EngineError) /\ i' = 0
    /\ UNCHANGED <<op, loadVars, parts, min_val, max_val, range_size, rows, inserts>>

\* line 96: INSERT INTO base SELECT * FROM data_table
RpCopy ==
    /\ pc = "rp_child"
    /\ i = parts
    /\ IF CopyAccepted(work, txn, Base, DataTable)
       THEN /\ Executed(CopyRouted(work, Base, DataTable), "insert")
            /\ pc' = "rp_commit"
            /\ UNCHANGED raised
       ELSE Propagate(EngineError)
    /\ i' = 0
    /\ UNCHANGED <<op, loadVars, parts, min_val, max_val, range_size, rows,
                   requested, inserts>>

\* line 97
RpCommit ==
    /\ pc = "rp_commit"
    /\ Commit
    /\ UNCHANGED <<op, raised, loadVars, partVars>>
----------------------------------------------------------------------------
(* round_robin_partition, lines 99-162 *)

\* CREATE TABLE name (CHECK (true)) INHERITS (base)
InheritAccepted(db, t, name, base) == CreateAccepted(db, t, name) /\ db[base].exists

CreateInherits(db, name, base) ==
    [db EXCEPT ![name] = [PlainTable(<<>>) EXCEPT !.kind = "inherits", !.parent = base]]

\* lines 120-152: the trigger function, with the partition count written into
\* its text, and the BEFORE INSERT trigger on the parent
CreateTrigger(db, base, n) == [db EXCEPT ![base].trig = n]

PartIdxNext(k, n) == (k + 1) % n

\* line 158
PartIdx(k, n) == k % n

FewerOrEqual(curr_count, min_count) == min_count = -1 \/ curr_count <= min_count

More(curr_count, min_count) == min_count = -1 \/ curr_count > min_count

\* line 133: IF min_count IS NULL OR curr_count < min_count (NULL is -1 here)
Fewer(curr_count, min_count) == min_count = -1 \/ curr_count < min_count

RECURSIVE TriggerScan(_, _, _, _, _, _)
\* lines 128-138: the loop FOR i IN 0..parts-1 of the trigger function
TriggerScan(db, base, n, k, min_count, target) ==
    IF k > n - 1 THEN target
    ELSE LET curr_count == Len(db[Child(base, k)].rows)
         IN  IF Fewer(curr_count, min_count)
             THEN TriggerScan(db, base, n, k + 1, curr_count, Child(base, k))
             ELSE TriggerScan(db, base, n, k + 1, min_count, target)

\* lines 127-141: the row goes to the target; RETURN NULL keeps it out of
\* the parent
TriggerFunc(db, base, row) ==
    InsertRows(db, TriggerScan(db, base, db[base].trig, 0, -1, ""), <<row>>)

round_robin_partition ==
    /\ pc = "idle"
    /\ \E n \in 1..MaxParts : parts' = n
    /\ op' = "round_robin_partition"
    /\ pc' = "rr_header"
    /\ issued' = <<>>
    /\ raised' = NoError
    /\ min_val' = 0 /\ max_val' = 0 /\ range_size' = 0 /\ i' = 0
    /\ requested' = <<>>
    /\ rows' = <<>>
    /\ UNCHANGED <<dbVars, loadVars, inserts>>

\* lines 111-112: read the header file
RrHeader ==
    /\ pc = "rr_header"
    /\ \E ok \in BOOLEAN :
        IF ok
        THEN pc' = "rr_parent" /\ UNCHANGED <<dbVars, issued, raised>>
        ELSE Propagate(ClientError)
    /\ UNCHANGED <<op, loadVars, partVars>>

\* lines 114-115: CREATE TABLE base
RrCreateParent ==
    /\ pc = "rr_parent"
    /\ IF CreateAccepted(work, txn, Base)
       THEN /\ Executed(CreateTable(work, Base), "create")
            /\ pc' = "rr_child"
            /\ UNCHANGED raised
       ELSE Propagate(EngineError)
    /\ UNCHANGED <<op, loadVars, partVars>>

\* lines 117-118: one iteration of the loop over the children
RrCreateChild ==
    /\ pc = "rr_child"
    /\ i < parts
    /\ IF InheritAccepted(work, txn, Child(Base, i), Base)
       THEN /\ Executed(CreateInherits(work, Child(Base, i), Base), "create")
            /\ i' = i + 1
            /\ UNCHANGED <<pc, raised>>
       ELSE Propagate(EngineError) /\ i' = 0
    /\ UNCHANGED <<op, loadVars, parts, min_val, max_val, range_size, rows,
                   requested, inserts>>

\* lines 120-155: install the trigger, then SELECT * FROM data_table
RrTrigger ==
    /\ pc = "rr_child"
    /\ i = parts
    /\ IF txn # "aborted" /\ work[DataTable].exists
       THEN /\ Executed(CreateTrigger(work, Base, parts), "trigger")
            /\ rows' = work[DataTable].rows
            /\ pc' = "rr_insert"
            /\ UNCHANGED raised
       ELSE Propagate(EngineError) /\ UNCHANGED rows
    /\ i' = 0
    /\ UNCHANGED <<op, loadVars, parts, min_val, max_val, range_size, requested,
                   inserts>>

\* lines 157-160: one iteration of the loop over the fetched rows
RrInsert ==
    /\ pc = "rr_insert"
    /\ i < Len(rows)
    /\ LET part_idx == PartIdx(i, parts)
       IN  \E ok \in BOOLEAN :
            IF ok
            THEN /\ Executed(InsertRows(work, Child(Base, part_idx), <<rows[i + 1]>>),
                             "insert")
                 /\ i' = i + 1
                 /\ UNCHANGED <<pc, raised, rows>>
            ELSE Propagate(EngineError) /\ PartLocalsGone
    /\ UNCHANGED <<op, loadVars, parts, min_val, max_val, range_size, requested,
                   inserts>>

\* line 162
RrCommit ==
    /\ pc = "rr_insert"
    /\ i = Len(rows)
    /\ Commit
    /\ PartLocalsGone
    /\ inserts' = 0
    /\ UNCHANGED <<op, raised, loadVars, parts, min_val, max_val, range_size,
                   requested>>

\* A client inserts one row into the round-robin parent and commits: the
\* BEFORE INSERT trigger (lines 147-150) runs the trigger function.
InsertParent ==
    /\ pc = "idle"
    /\ txn = "idle"
    /\ inserts < MaxInserts
    /\ work[Base].exists /\ work[Base].trig > 0
    /\ LET row == <<Len(work[DataTable].rows) + inserts + 1, 1>>
       IN  /\ work' = TriggerFunc(work, Base, row)
           /\ committed' = TriggerFunc(work, Base, row)
    /\ inserts' = inserts + 1
    /\ UNCHANGED <<txn, callVars, loadVars, parts, min_val, max_val, range_size, i,
                   rows, requested>>

----------------------------------------------------------------------------
(* delete_partitions, lines 164-183 *)

DeleteFail == RollbackAndRaise("Partition deletion error")

delete_partitions ==
    /\ pc = "idle"
    /\ \E n \in 1..MaxParts : parts' = n
    /\ op' = "delete_partitions"
    /\ pc' = "dp_base"
    /\ issued' = <<>>
    /\ raised' = NoError
    /\ min_val' = 0 /\ max_val' = 0 /\ range_size' = 0 /\ i' = 0
    /\ requested' = <<>>
    /\ rows' = <<>>
    /\ UNCHANGED <<dbVars, loadVars, inserts>>

\* line 175: DROP TABLE IF EXISTS base
DpDropBase ==
    /\ pc = "dp_base"
    /\ IF DropAccepted(work, txn, Base)
       THEN /\ Executed(DropTable(work, Base), "drop")
            /\ pc' = "dp_child"
            /\ UNCHANGED raised
       ELSE DeleteFail
    /\ UNCHANGED <<op, loadVars, partVars>>

\* lines 177-178: one iteration of the loop over the children
DpDropChild ==
    /\ pc = "dp_child"
    /\ i < parts
    /\ IF DropAccepted(work, txn, Child(Base, i))
       THEN /\ Executed(DropTable(work, Child(Base, i)), "drop")
            /\ i' = i + 1
            /\ UNCHANGED <<pc, raised>>
       ELSE DeleteFail /\ i' = 0
    /\ UNCHANGED <<op, loadVars, parts, min_val, max_val, range_size, rows,
                   requested, inserts>>

\* line 180
DpCommit ==
    /\ pc = "dp_child"
    /\ i = parts
    /\ Commit
    /\ i' = 0
    /\ UNCHANGED <<op, raised, loadVars, parts, min_val, max_val, range_size, rows,
                   requested, inserts>>

----------------------------------------------------------------------------
(* Specifications *)

NoPart ==
    /\ parts = 0 /\ min_val = 0 /\ max_val = 0 /\ range_size = 0 /\ i = 0
    /\ rows = <<>> /\ requested = <<>> /\ inserts = 0

\* The small files are loaded under both headers and onto a missing or an
\* existing table, the files of a batch or more under one header onto an
\* existing table.
InitLoad ==
    /\ table_name = DataTable
    /\ \/ /\ file_path \in SmallFiles
          /\ header_path \in Headers
          /\ \E old \in {NoTable, PlainTable(OldRows)} :
                committed = [c \in Names |-> IF c = DataTable THEN old ELSE NoTable]
       \/ /\ file_path \in LargeFiles
          /\ header_path = <<"id", "val">>
          /\ committed = [c \in Names |->
                            IF c = DataTable THEN PlainTable(OldRows) ELSE NoTable]
    /\ work = committed
    /\ txn = "idle"
    /\ pc = "idle" /\ op = "none" /\ issued = <<>> /\ raised = NoError
    /\ calls = 0 /\ columns = <<>> /\ pos = 0 /\ batch = <<>>
    /\ NoPart

NextLoad ==
    \/ load_data
    \/ LoadDrop
    \/ LoadHeader
    \/ LoadCreate
    \/ LoadOpen
    \/ LoadRow
    \/ LoadRest
    \/ LoadCommit

SpecLoad == InitLoad /\ [][NextLoad]_vars

NoLoad ==
    /\ table_name = DataTable
    /\ file_path = [n |-> 0, pat |-> 0]
    /\ header_path = <<"id", "val">>
    /\ calls = 0 /\ columns = <<>> /\ pos = 0 /\ batch = <<>>

\* The source table is loaded and committed; no partition table exists.
InitPart ==
    /\ \E keys \in SourceTables :
          committed = [c \in Names |->
                         IF c = DataTable THEN PlainTable(SourceRows(keys)) ELSE NoTable]
    /\ work = committed
    /\ txn = "idle"
    /\ pc = "idle" /\ op = "none" /\ issued = <<>> /\ raised = NoError
    /\ NoLoad
    /\ NoPart

NextPart ==
    \/ range_partition
    \/ RpMinMax
    \/ RpHeader
    \/ RpCreateParent
    \/ RpCreateChild
    \/ RpCopy
    \/ RpCommit
    \/ round_robin_partition
    \/ RrHeader
    \/ RrCreateParent
    \/ RrCreateChild
    \/ RrTrigger
    \/ RrInsert
    \/ RrCommit
    \/ InsertParent
    \/ delete_partitions
    \/ DpDropBase
    \/ DpDropChild
    \/ DpCommit

SpecPart == InitPart /\ [][NextPart]_vars

----------------------------------------------------------------------------
(* Properties of load_data, checked under SpecLoad *)

LoadReturned == op = "load_data" /\ pc = "idle" /\ raised = NoError
LoadRaised   == op = "load_data" /\ pc = "idle" /\ raised # NoError

Count(seq, x) == Cardinality({k \in DOMAIN seq : seq[k] = x})

\* The position of a column in the header.
ColumnOf(cols, name) == CHOOSE j \in DOMAIN cols : cols[j] = name

\* C2: after load_data succeeds the table holds as many rows as the CSV file
\* has data rows, row k of the table being row k of the file, for row counts
\* 0, below a batch, whole batches and whole batches plus a rest; while the
\* file is read every row read so far is in the table or in the waiting batch,
\* and the number of inserts is the number of batches.
C2_RowCount ==
    /\ pc = "load_row" =>
          /\ Len(work[table_name].rows) + Len(batch) = pos
          /\ Len(batch) < BatchSize
    /\ LoadReturned =>
          LET stored == committed[table_name].rows
              idcol  == ColumnOf(header_path, "id")
          IN  /\ Len(stored) = file_path.n
              /\ Count(issued, "insert") = Ceil(file_path.n, BatchSize)
              /\ \A k \in 1..Len(stored) :
                    CsvRow(file_path, k).id # "" => stored[k][idcol] = Value(ToString(k))

C2_Witness ==
    /\ LoadReturned
    /\ file_path.n > BatchSize /\ file_path.n % BatchSize = 1
    /\ Len(committed[table_name].rows) = file_path.n

\* What a call of load_data has issued: a failed call one rollback, last, and
\* no commit; a call that returned one commit, last, and no rollback; a
\* running call neither.
C4_State ==
    /\ LoadRaised =>
          /\ raised = Wrapped("Data loading error")
          /\ Count(issued, "rollback") = 1 /\ issued[Len(issued)] = "rollback"
          /\ Count(issued, "commit") = 0
          /\ work = committed /\ txn = "idle"
    /\ LoadReturned =>
          /\ Count(issued, "commit") = 1 /\ issued[Len(issued)] = "commit"
          /\ Count(issued, "rollback") = 0
          /\ work = committed /\ txn = "idle"
    /\ (op = "load_data" /\ pc # "idle") =>
          Count(issued, "commit") = 0 /\ Count(issued, "rollback") = 0

\* C4: a call of load_data that fails has issued one rollback, as its last
\* request, and no commit, raises the wrapped "Data loading error" and leaves
\* the transaction empty; a call that does not fail has issued one commit, as
\* its last request, and no rollback; and no step of a call other than that
\* commit changes the committed tables, so a failed call leaves them as they
\* were before it.
C4_CommitOrRollback ==
    /\ []C4_State
    /\ [][(committed' # committed => pc = "load_commit" /\ raised' = NoError)
          /\ (raised' # NoError => committed' = committed)]_vars

C4_Witness ==
    /\ LoadRaised
    /\ Count(issued, "insert") > 0
    /\ committed[table_name] = PlainTable(OldRows)

\* What the table holds once the file is loaded under the header.
Loaded(f, cols) ==
    PlainTable([k \in 1..f.n |->
        [j \in 1..Len(cols) |->
            IF CsvRow(f, k)[cols[j]] = "" THEN Null ELSE Value(CsvRow(f, k)[cols[j]])]])

\* C6: a successful load_data leaves the table with exactly the file's rows
\* under the header's columns, whatever the table held before, and a call made
\* after that (successful or not) leaves it so: two calls with the same
\* arguments give what one call gives.
C6_Idempotent ==
    /\ [](LoadReturned => committed[table_name] = Loaded(file_path, header_path))
    /\ [][committed'[table_name] # committed[table_name]
            => committed'[table_name] = Loaded(file_path, header_path)]_vars

C6_Witness ==
    /\ LoadReturned
    /\ calls = 2
    /\ Len(committed[table_name].rows) >= 2

\* C7: in the loaded table an empty CSV field is null and a non-empty field is
\* the field's text, in the column the header's key order gives it.
C7_EmptyIsNull ==
    LoadReturned =>
        \A k \in 1..Len(committed[table_name].rows) :
            \A j \in 1..Len(header_path) :
                LET field  == CsvRow(file_path, k)[header_path[j]]
                    stored == committed[table_name].rows[k][j]
                IN  /\ field = "" => stored = Null
                    /\ field # "" => stored = Value(field)

\* The scenario of the specification: rows (1,a), (2,""), (3,a).
C7_Witness ==
    /\ LoadReturned
    /\ file_path = [n |-> 3, pat |-> 1] /\ header_path = <<"id", "val">>
    /\ committed[table_name].rows = << <<Value("1"), Value("a")>>,
                                       <<Value("2"), Null>>,
                                       <<Value("3"), Value("a")>> >>

----------------------------------------------------------------------------
(* Properties of the partition calls, checked under SpecPart *)

RpRaised   == op = "range_partition" /\ pc = "idle" /\ raised # NoError
RrReturned == op = "round_robin_partition" /\ pc = "idle" /\ raised = NoError

\* C1: the ranges range_partition asks the engine for are each non-empty,
\* start at min, follow one another without gap or overlap, and the last of
\* the N ends at max+1, so that together they are exactly [min, max].
C1_RangesCover ==
    op = "range_partition" =>
        \A k \in 1..Len(requested) :
            /\ requested[k][1] < requested[k][2]
            /\ k = 1 => requested[k][1] = min_val
            /\ k > 1 => requested[k][1] = requested[k - 1][2]
            /\ k = parts => requested[k][2] = max_val + 1

\* Row p (zero-based) of rs is in child p mod parts, as that child's row
\* number p div parts.
InChild(db, p, rs) ==
    LET c == db[Child(Base, p % parts)].rows
    IN  Len(c) >= (p \div parts) + 1 /\ c[(p \div parts) + 1] = rs[p + 1]

RECURSIVE ChildRows(_, _)
\* The number of rows in the children 0..n-1.
ChildRows(db, n) ==
    IF n = 0 THEN 0 ELSE Len(db[Child(Base, n - 1)].rows) + ChildRows(db, n - 1)

\* C3: the bulk copy of round_robin_partition puts the row read at zero-based
\* position p into child p mod N, each row once, and no row into the parent.
C3_BulkCopy ==
    /\ pc = "rr_insert" =>
          /\ \A p \in 0..(i - 1) : InChild(work, p, rows)
          /\ ChildRows(work, parts) = i
          /\ work[Base].rows = <<>>
    /\ RrReturned =>
          /\ \A p \in 0..(Len(committed[DataTable].rows) - 1) :
                InChild(committed, p, committed[DataTable].rows)
          /\ committed[Base].rows = <<>>

C3_Witness ==
    /\ RrReturned
    /\ parts = 2 /\ Len(committed[DataTable].rows) = 3 /\ inserts = 0
    /\ Len(committed[Child(Base, 0)].rows) = 2
    /\ Len(committed[Child(Base, 1)].rows) = 1

\* C5: delete_partitions, called in a transaction that is not aborted, does
\* not raise, and when it has returned it has committed and neither the base
\* table nor any of its N numbered children exists.
C5_DeleteSucceeds ==
    /\ []((op = "delete_partitions" /\ pc = "idle" /\ raised = NoError) =>
            /\ issued[Len(issued)] = "commit"
            /\ ~committed[Base].exists
            /\ \A k \in 0..(parts - 1) : ~committed[Child(Base, k)].exists)
    /\ [][(op = "delete_partitions" /\ txn # "aborted") => raised' = NoError]_vars

\* The tables the statements of a range_partition call have created so far
\* exist in the connection's transaction, and are not committed.
LeftBehind ==
    LET made == Count(issued, "create")
    IN  /\ made >= 1 =>
              /\ work[Base].exists /\ work[Base].kind = "partitioned"
              /\ ~committed[Base].exists
        /\ \A k \in 0..(made - 2) :
              /\ work[Child(Base, k)].exists /\ work[Child(Base, k)].kind = "partition"
              /\ ~committed[Child(Base, k)].exists

\* C8 as stated: whenever range_partition fails, the error raised is the
\* engine's, unwrapped, no rollback and no commit was issued, and the tables
\* created before the failure are left behind.
C8_EngineErrorPropagates ==
    RpRaised =>
        /\ raised = EngineError
        /\ Count(issued, "rollback") = 0 /\ Count(issued, "commit") = 0
        /\ LeftBehind

\* C8 as amended: whenever range_partition fails, the error raised is the
\* original one, unwrapped (the engine's for a rejected statement, the
\* client's own for a null min/max or an unreadable header), no rollback and
\* no commit was issued, the transaction is still open or aborted, and the
\* tables created before the failure are left, uncommitted, in it.
C8_ErrorPropagates ==
    RpRaised =>
        /\ raised \in {EngineError, ClientError}
        /\ Count(issued, "rollback") = 0 /\ Count(issued, "commit") = 0
        /\ txn # "idle"
        /\ LeftBehind

C8_Witness ==
    /\ RpRaised
    /\ raised = EngineError
    /\ Count(issued, "create") >= 2
    /\ work[Child(Base, 0)].exists /\ ~committed[Child(Base, 0)].exists

\* C9: an insert into the round-robin parent adds the row to exactly one
\* child, one whose row count is the minimum over the N children and the one
\* of lowest index among these, and changes no other table: the parent keeps
\* no row.
C9_TriggerRouting ==
    [][inserts' = inserts + 1 =>
        LET n      == work[Base].trig
            cnt(k) == Len(work[Child(Base, k)].rows)
        IN  \E c \in 0..(n - 1) :
              /\ \A d \in 0..(n - 1) : cnt(c) <= cnt(d)
              /\ \A d \in 0..(c - 1) : cnt(d) > cnt(c)
              /\ Len(work'[Child(Base, c)].rows) = cnt(c) + 1
              /\ SubSeq(work'[Child(Base, c)].rows, 1, cnt(c)) = work[Child(Base, c)].rows
              /\ \A t \in Names \ {Child(Base, c)} : work'[t] = work[t]
              /\ work'[Base].rows = <<>>
              /\ committed' = work']_vars

C9_Witness ==
    /\ inserts >= 2
    /\ committed[Base].trig >= 2
    /\ \E k \in 1..(committed[Base].trig - 1) :
          LET c == committed[Child(Base, k)].rows
          IN  c # <<>> /\ c[Len(c)][1] > Len(committed[DataTable].rows)

\* C10: once round_robin_partition has committed a partition set of N
\* children from a source of R rows, and after any number of single-row
\* inserts into the parent, the row counts of two children differ by at most
\* 1 and the counts add up to R plus the number of inserts.
C10_Balanced ==
    (committed[Base].exists /\ committed[Base].trig > 0) =>
        LET n      == committed[Base].trig
            cnt(k) == Len(committed[Child(Base, k)].rows)
        IN  /\ \A a, b \in 0..(n - 1) : cnt(a) - cnt(b) <= 1
            /\ ChildRows(committed, n) = Len(committed[DataTable].rows) + inserts

C10_Witness ==
    /\ committed[Base].exists /\ committed[Base].trig >= 2
    /\ Len(committed[DataTable].rows) % committed[Base].trig # 0
    /\ inserts >= 2

====
